---- MODULE Spec2Model ----
(***************************************************************************)
(* AngleCraft: sphere-point distributions, overlap filter and the          *)
(* create / delete / render operations on the scene (operators.py).        *)
(*                                                                         *)
(* Angles are kept exact: a vertical angle is a record naming the          *)
(* function applied (none, acos, asin), its rational argument num/den and  *)
(* the post-scaling; a horizontal angle is k steps of a unit.  A Python    *)
(* exception is the record Raise(kind); a normal return is Return(seq).    *)
(***************************************************************************)
EXTENDS Integers, Sequences, FiniteSets, TLC

\* ---------------------------------------------------------------- bounds
MaxCount == 4

\* ------------------------------------------------------- program constants
BiasNum == 8
BiasDen == 10

Strategies == {"fibonacci", "linear", "uniform", "equator_dense", "weighted"}

\* ------------------------------------------------------------ exceptions
\* The outcome of a call: the list returned, or the exception raised.
Return(points) == [exc |-> "none", points |-> points]
Raise(kind) == [exc |-> kind, points |-> <<>>]

\* The outcome of an arithmetic expression: the exact rational num/den, or
\* the exception its evaluation raises.
Value(num, den) == [exc |-> "none", num |-> num, den |-> den]
Error(kind) == [exc |-> kind, num |-> 0, den |-> 1]

\* Python's  a / b : ZeroDivisionError when b is zero.
Div(a, b) == IF b = 0 THEN Error("ZeroDivisionError") ELSE Value(a, b)

\* int(math.ceil(math.sqrt(n)))
CeilSqrt(n) == CHOOSE k \in 0..n : k * k >= n /\ \A j \in 0..(k - 1) : j * j < n

\* int(math.ceil(a / b)) for a, b >= 0
CeilDiv(a, b) ==
  IF b = 0 THEN Error("ZeroDivisionError") ELSE Value((a + b - 1) \div b, 1)

\* ---------------------------------------------------------------- angles
\* The angle  post(fn(num/den)) : fn is "none" (the angle is pi * num / den),
\* "acos" or "asin"; post is the scaling applied to the function's value.
Angle(fn, num, den, post) ==
  [exc |-> "none", fn |-> fn, num |-> num, den |-> den, post |-> post]
AngleError(kind) ==
  [exc |-> kind, fn |-> "none", num |-> 0, den |-> 1, post |-> "none"]
Turn(j, H) == [unit |-> "2pi/H", k |-> j, of |-> H]
Golden(i) == [unit |-> "golden", k |-> i, of |-> 1]

\* math.acos / math.asin raise ValueError outside [-1, 1]
InUnitInterval(num, den) ==
  IF den > 0 THEN -den <= num /\ num <= den ELSE den <= num /\ num <= -den

Point(a, phi) ==
  [theta |-> [fn |-> a.fn, num |-> a.num, den |-> a.den, post |-> a.post],
   phi |-> phi]

\* One ring of H points at vertical angle a (the inner loop over h / j).
Ring(a, H) == [h \in 1..H |-> Point(a, Turn(h - 1, H))]

\* ---------------------------------------- the vertical angle of ring v
\* generate_sphere_points
sphere_vertical_angle(i, V, hemisphere) ==
  LET q == Div(i, V - 1)
  IN IF q.exc # "none" THEN AngleError(q.exc)
     ELSE IF hemisphere = "top" THEN Angle("none", q.num, 2 * q.den, "pi")
     ELSE IF hemisphere = "bottom"
          THEN Angle("none", q.num + q.den, 2 * q.den, "pi")
     ELSE Angle("none", q.num, q.den, "pi")

\* linear_distribution
linear_vertical_angle(v, V, half_sphere) ==
  IF half_sphere
  THEN LET q == Div(v, V - 1)
       IN IF q.exc # "none" THEN AngleError(q.exc)
          ELSE Angle("none", q.num, 2 * q.den, "pi")
  ELSE Angle("none", v + 1, V + 1, "pi")

\* uniform_distribution
uniform_vertical_angle(v, V, half_sphere) ==
  IF half_sphere
  THEN LET q == Div(2 * v, V - 1)
       IN IF q.exc # "none" THEN AngleError(q.exc)
          ELSE IF InUnitInterval(q.den - q.num, q.den)
               THEN Angle("acos", q.den - q.num, q.den, "div2")
          ELSE AngleError("ValueError")
  ELSE IF InUnitInterval((V + 1) - 2 * (v + 1), V + 1)
       THEN Angle("acos", (V + 1) - 2 * (v + 1), V + 1, "none")
  ELSE AngleError("ValueError")

\* equator_dense_distribution
equator_vertical_angle(v, V, half_sphere) ==
  LET t == Div(2 * v + 1, 2 * V)
  IN IF t.exc # "none" THEN AngleError(t.exc)
     ELSE IF half_sphere
          THEN IF InUnitInterval(t.num, t.den)
               THEN Angle("asin", t.num, t.den, "times_pi_2")
               ELSE AngleError("ValueError")
     ELSE IF InUnitInterval(2 * t.num - t.den, t.den)
          THEN Angle("asin", 2 * t.num - t.den, t.den, "plus_pi_2")
     ELSE AngleError("ValueError")

\* The vertical angle of ring v in the loop of function fn; half is the
\* function's half_sphere flag or, for generate_sphere_points, its hemisphere.
vertical_angle(fn, v, V, half) ==
  IF fn = "generate_sphere_points" THEN sphere_vertical_angle(v, V, half)
  ELSE IF fn = "linear_distribution" THEN linear_vertical_angle(v, V, half)
  ELSE IF fn = "uniform_distribution" THEN uniform_vertical_angle(v, V, half)
  ELSE equator_vertical_angle(v, V, half)

\* The outer loop  for v in range(V)  of function fn, with the points
\* appended ring by ring; an exception raised while computing a ring's angle
\* ends the loop and the call.
Rings(fn, H, V, half) ==
  LET acc[k \in 0..V] ==
        IF k = 0 THEN Return(<<>>)
        ELSE LET so_far == acc[k - 1]
                 a == vertical_angle(fn, k - 1, V, half)
             IN IF so_far.exc # "none" THEN so_far
                ELSE IF a.exc # "none" THEN Raise(a.exc)
                ELSE Return(so_far.points \o Ring(a, H))
  IN acc[V]

generate_sphere_points(H, V, hemisphere) ==
  IF H <= 0 \/ V <= 0 THEN Return(<<>>)
  ELSE Rings("generate_sphere_points", H, V, hemisphere)

linear_distribution(H, V, half_sphere) ==
  Rings("linear_distribution", H, V, half_sphere)

uniform_distribution(H, V, half_sphere) ==
  Rings("uniform_distribution", H, V, half_sphere)

equator_dense_distribution(H, V, half_sphere) ==
  Rings("equator_dense_distribution", H, V, half_sphere)

\* --------------------------------------------------- weighted_distribution
\* s[:n]
Take(s, n) == SubSeq(s, 1, IF n < Len(s) THEN n ELSE Len(s))

weighted_distribution(N) ==
  LET top_cameras == (N * BiasNum) \div BiasDen
      bottom_cameras == N - top_cameras
      num_horizontal_top == CeilSqrt(top_cameras)
      num_vertical_top == CeilDiv(top_cameras, num_horizontal_top)
      num_horizontal_bottom == CeilSqrt(bottom_cameras)
      num_vertical_bottom == CeilDiv(bottom_cameras, num_horizontal_bottom)
      top == generate_sphere_points(num_horizontal_top,
                                    num_vertical_top.num, "top")
      bottom == generate_sphere_points(num_horizontal_bottom,
                                       num_vertical_bottom.num, "bottom")
  IN IF num_vertical_top.exc # "none" THEN Raise(num_vertical_top.exc)
     ELSE IF num_vertical_bottom.exc # "none"
          THEN Raise(num_vertical_bottom.exc)
     ELSE IF top.exc # "none" THEN top
     ELSE IF bottom.exc # "none" THEN bottom
     ELSE Return(Take(top.points, top_cameras)
                 \o Take(bottom.points, bottom_cameras))

\* -------------------------------------------------------- fibonacci_sphere
\* z rising from -1 to 1.
fibonacci_z_rising(i, samples) ==
  LET q == Div(i, samples - 1)
  IN IF q.exc # "none" THEN q ELSE Value(2 * q.num - q.den, q.den)

\* z = 1 - (i / float(samples - 1)) * 2
fibonacci_z(i, samples) ==
  LET q == Div(i, samples - 1)
  IN IF q.exc # "none" THEN q ELSE Value(q.den - 2 * q.num, q.den)

fibonacci_sphere(samples, half_sphere) ==
  LET acc[k \in 0..samples] ==
        IF k = 0 THEN Return(<<>>)
        ELSE LET so_far == acc[k - 1]
                 i == k - 1
                 z == fibonacci_z(i, samples)
             IN IF so_far.exc # "none" THEN so_far
                ELSE IF z.exc # "none" THEN Raise(z.exc)
                ELSE IF half_sphere /\ z.num < 0 THEN so_far
                ELSE Return(Append(so_far.points,
                       Point(Angle("acos", z.num, z.den, "none"), Golden(i))))
  IN acc[samples]

\* ------------------------------- create_cameras: dispatch on the strategy
distribute(distribution_type, H, V, half_sphere) ==
  IF distribution_type = "fibonacci" THEN fibonacci_sphere(H * V, half_sphere)
  ELSE IF distribution_type = "linear"
       THEN linear_distribution(H, V, half_sphere)
  ELSE IF distribution_type = "uniform"
       THEN uniform_distribution(H, V, half_sphere)
  ELSE IF distribution_type = "equator_dense"
       THEN equator_dense_distribution(H, V, half_sphere)
  ELSE IF distribution_type = "weighted" THEN weighted_distribution(H * V)
  ELSE Raise("ValueError")

\* ------------------------------------------------ remove_overlapping_cameras
\* mathutils.Vector(point): the vector with the components of the tuple.
Vector(point) == <<point[1], point[2], point[3]>>

Sub(a, b) == <<a[1] - b[1], a[2] - b[2], a[3] - b[3]>>
Length2(v) == v[1] * v[1] + v[2] * v[2] + v[3] * v[3]

\* The test with > for >=.
far_strict(point_vec, other, threshold) ==
  Length2(Sub(point_vec, Vector(other))) > threshold * threshold

\* (point_vec - Vector(other)).length >= threshold, for threshold >= 0, on
\* exact coordinates: compared through the squares.
far(point_vec, other, threshold) ==
  Length2(Sub(point_vec, Vector(other))) >= threshold * threshold

\* On points of the unit sphere, whose coordinates the exact angles do not
\* give: two points of the unit sphere are at distance at least 0 and at most
\* 2, which decides the test for the thresholds 0 and above 2.
sphere_far(point_vec, other, threshold) ==
  IF threshold <= 0 THEN TRUE
  ELSE IF threshold > 2 THEN FALSE
  ELSE CHOOSE undecided \in BOOLEAN : FALSE

\* The loop of remove_overlapping_cameras; acc[k] is filtered_points after
\* the first k points. space is "grid" for points given by their coordinates
\* and "sphere" for points of the unit sphere given by their angles.
filter_points(points, threshold, space) ==
  LET acc[k \in 0..Len(points)] ==
        IF k = 0 THEN <<>>
        ELSE LET point_vec == IF space = "grid" THEN Vector(points[k])
                              ELSE points[k]
                 filtered_points == acc[k - 1]
             IN IF \A o \in 1..Len(filtered_points) :
                      IF space = "grid"
                      THEN far(point_vec, filtered_points[o], threshold)
                      ELSE sphere_far(point_vec, filtered_points[o], threshold)
                THEN Append(filtered_points, point_vec)
                ELSE filtered_points
  IN acc[Len(points)]

\* The filter testing a point against the last accepted point alone.
remove_overlapping_last_only(points, threshold) ==
  LET acc[k \in 0..Len(points)] ==
        IF k = 0 THEN <<>>
        ELSE LET filtered_points == acc[k - 1]
                 n == Len(filtered_points)
             IN IF n = 0 \/ far(Vector(points[k]), filtered_points[n], threshold)
                THEN Append(filtered_points, Vector(points[k]))
                ELSE filtered_points
  IN acc[Len(points)]

remove_overlapping_cameras(points, threshold) ==
  filter_points(points, threshold, "grid")

remove_overlapping_sphere(points, threshold) ==
  filter_points(points, threshold, "sphere")

\* ------------------------------------------------------------------ names
\* A name is the sequence of its characters.
DigitChar == <<"0", "1", "2", "3", "4", "5", "6", "7", "8", "9">>
Digits == {DigitChar[d] : d \in 1..10}

\* str(n) for n >= 0
RECURSIVE Str(_)
Str(n) == IF n < 10 THEN <<DigitChar[n + 1]>>
          ELSE Str(n \div 10) \o <<DigitChar[(n % 10) + 1]>>

\* the format  %03d / {n:03d}
Pad3(n) == IF n < 10 THEN <<"0", "0">> \o Str(n)
           ELSE IF n < 100 THEN <<"0">> \o Str(n)
           ELSE Str(n)

\* f"{target_object.name}_ai_{idx}"
ai_name(target_name, idx) == target_name \o <<"_", "a", "i", "_">> \o Str(idx)

\* The file name without the padding.
render_filename_unpadded(i) ==
  <<"r", "e", "n", "d", "e", "r", "_">> \o Str(i) \o <<".", "p", "n", "g">>

\* f"render_{i:03d}.png"
render_filename(i) ==
  <<"r", "e", "n", "d", "e", "r", "_">> \o Pad3(i) \o <<".", "p", "n", "g">>

\* re.search(r'_ai_\d+', name): the pattern anywhere in the name.
re_search_ai_digits(name) ==
  \E p \in 1..(Len(name) - 4) :
    /\ name[p] = "_" /\ name[p + 1] = "a" /\ name[p + 2] = "i"
    /\ name[p + 3] = "_"
    /\ name[p + 4] \in Digits

\* ------------------------------------------------- the host's object table
\* bpy.data.objects: the objects in creation order, each with a unique name.
Names(objects) == {objects[k].name : k \in 1..Len(objects)}

\* bpy.data.objects.get(name): the object's position, 0 for None.
objects_get(objects, name) ==
  IF name \in Names(objects)
  THEN CHOOSE k \in 1..Len(objects) : objects[k].name = name
  ELSE 0

\* Assigning a name another object bears: the host keeps names unique by
\* appending ".001", ".002", ... to the name being assigned.
unique_name(name, taken) ==
  IF name \notin taken THEN name
  ELSE LET n == CHOOSE k \in 1..(Cardinality(taken) + 1) :
                  /\ (name \o <<".">> \o Pad3(k)) \notin taken
                  /\ \A j \in 1..(k - 1) :
                       (name \o <<".">> \o Pad3(j)) \in taken
       IN name \o <<".">> \o Pad3(n)

\* The selection of every camera.
is_any_camera(object) == object.type = "CAMERA"

\* The selection of delete_ai_cameras and render_cameras.
is_managed(object) == object.type = "CAMERA" /\ re_search_ai_digits(object.name)

managed_cameras(objects) == SelectSeq(objects, is_managed)

\* ---------------------------------------------------------- create_cameras
NoneName == <<"N", "o", "n", "e">>

\* The loop over enumerate(points): camera idx is created (a copy of the base
\* camera, or a new camera) and then named; the name it had until then is
\* its own and collides with nothing.  acc[k] is the table and the list
\* cameras after k points.
place_cameras(objects, target_name, base_type, n) ==
  LET acc[k \in 0..n] ==
        IF k = 0 THEN [objects |-> objects, cameras |-> <<>>]
        ELSE LET so_far == acc[k - 1]
                 idx == k - 1
                 name == unique_name(ai_name(target_name, idx),
                                     Names(so_far.objects))
             IN [objects |-> Append(so_far.objects,
                                    [name |-> name, type |-> base_type]),
                 cameras |-> Append(so_far.cameras, name)]
  IN acc[n]

\* create_cameras from the filter on: generated is the outcome of the
\* strategy, target_object and base_camera are the objects looked up (0 for
\* None).
create_placing(objects, a, target_object, base_camera, generated) ==
  LET points == IF a.remove_overlapping
                THEN remove_overlapping_sphere(generated.points,
                                               a.overlap_threshold)
                ELSE generated.points
      base_type == IF base_camera # 0 THEN objects[base_camera].type
                   ELSE "CAMERA"
  IN IF target_object = 0
     THEN [exc |-> "ValueError", objects |-> objects, cameras |-> <<>>]
     ELSE IF generated.exc # "none"
     THEN [exc |-> generated.exc, objects |-> objects, cameras |-> <<>>]
     ELSE [exc |-> "none"] @@
          place_cameras(objects, objects[target_object].name,
                        base_type, Len(points))

create_cameras(objects, a) ==
  create_placing(objects, a,
    objects_get(objects, a.object_name),
    IF a.camera_base # <<>> /\ a.camera_base # NoneName
    THEN objects_get(objects, a.camera_base) ELSE 0,
    distribute(a.distribution_type, a.H, a.V, a.half_sphere))

\* -------------------------------------------------------- delete_ai_cameras
not_managed(object) == ~is_managed(object)

\* The deletion that stops after the first camera it removes.
delete_first_only(objects) ==
  LET first == IF managed_cameras(objects) = <<>> THEN 0
               ELSE CHOOSE k \in 1..Len(objects) :
                      /\ is_managed(objects[k])
                      /\ \A j \in 1..(k - 1) : ~is_managed(objects[j])
  IN [objects |-> [k \in 1..(Len(objects) - (IF first = 0 THEN 0 ELSE 1)) |->
                     IF first = 0 \/ k < first THEN objects[k]
                     ELSE objects[k + 1]],
      removed |-> IF first = 0 THEN 0 ELSE 1]

\* The deletion that counts the cameras it selected and removes every
\* second one of them (a removal that disturbs the iteration).
delete_every_second(objects) ==
  LET sel == {k \in 1..Len(objects) : is_managed(objects[k])}
      rank(k) == Cardinality({j \in sel : j <= k})
      kept(o) == ~is_managed(o)
      acc[k \in 0..Len(objects)] ==
        IF k = 0 THEN <<>>
        ELSE LET so_far == acc[k - 1]
             IN IF k \in sel /\ rank(k) % 2 = 1 THEN so_far
                ELSE Append(so_far, objects[k])
  IN [objects |-> acc[Len(objects)], removed |-> Cardinality(sel)]

delete_ai_cameras(objects) ==
  [objects |-> SelectSeq(objects, not_managed),
   removed |-> Len(managed_cameras(objects))]

\* ----------------------------------------------------------- render_cameras
\* floor_enum_items' identifier of the entry "no object selected"
NoneFloor == <<"N", "O", "N", "E">>

\* bpy.data.objects.get(floor_object_name) if floor_object_name else None
floor_lookup(objects, floor_object_name) ==
  IF floor_object_name # <<>> THEN objects_get(objects, floor_object_name)
  ELSE 0

\* The comparison with the sides exchanged.
camera_above_floor(camera, floor) == camera.z > floor.z

\* camera.location.z < floor_object.location.z
camera_below_floor(camera, floor) == camera.z < floor.z

\* progress_update one step ahead.
progress_update_ahead(i) == i + 2

\* wm.progress_update(i + 1)
progress_update(i) == i + 1

\* scene.world: None, or a world with its node tree (nodes by name, links
\* from node to node) and the image of its environment texture node.
NoWorld ==
  [exists |-> FALSE, use_nodes |-> FALSE, nodes |-> {}, links |-> {},
   image |-> "none"]

\* bpy.data.worlds.new("World")
new_world == [NoWorld EXCEPT !.exists = TRUE]

\* scene.world.use_nodes = True: a world without a node tree gets the
\* host's default tree, a background shader feeding the world output.
enable_nodes(world) ==
  IF world.use_nodes THEN world
  ELSE [world EXCEPT !.use_nodes = TRUE,
                     !.nodes = @ \cup {"Background", "World Output"},
                     !.links = @ \cup {<<"Background", "World Output">>}]

\* The swap for every camera.
env_swap_always(hdri_files, override_world, world) == hdri_files # {}

\* hdri_files and (override_world or not scene.world)
env_swap_needed(hdri_files, override_world, world) ==
  hdri_files # {} /\ (override_world \/ ~world.exists)

\* The calls of the host that create something, counted.
NoCalls == [worlds_new |-> 0, nodes_new |-> 0, links_new |-> 0,
            images_load |-> 0]

\* The body of the environment branch, from the world with its nodes
\* enabled on: the environment texture node is looked up and created if
\* absent, linked to the node "Background" (KeyError when there is none),
\* and given the image.
set_environment_node(world, random_hdri, calls) ==
  IF "Environment Texture" \in world.nodes
  THEN [exc |-> "none",
        world |-> [world EXCEPT !.image = random_hdri],
        calls |-> [calls EXCEPT !.images_load = @ + 1]]
  ELSE IF "Background" \notin world.nodes
  THEN [exc |-> "KeyError",
        world |-> [world EXCEPT !.nodes = @ \cup {"Environment Texture"}],
        calls |-> [calls EXCEPT !.nodes_new = @ + 1]]
  ELSE [exc |-> "none",
        world |-> [world EXCEPT
                     !.nodes = @ \cup {"Environment Texture"},
                     !.links = @ \cup {<<"Environment Texture", "Background">>},
                     !.image = random_hdri],
        calls |-> [calls EXCEPT !.nodes_new = @ + 1, !.links_new = @ + 1,
                                !.images_load = @ + 1]]

\* The environment branch of one iteration with the map random_hdri.
set_environment(world, random_hdri, calls) ==
  IF world.exists
  THEN set_environment_node(enable_nodes(world), random_hdri, calls)
  ELSE set_environment_node(enable_nodes(new_world), random_hdri,
                            [calls EXCEPT !.worlds_new = @ + 1])

\* ==================================================================== state
VARIABLES
  dist_call,     \* arguments of a point-generation call of create_cameras
  dist_done,     \* whether the call has run
  dist_result,   \* what it returned or raised
  flt_points,    \* argument  points  of remove_overlapping_cameras
  flt_threshold, \* argument  threshold
  flt_done,      \* whether the call has run
  flt_out,       \* the list it returned
  objects,       \* bpy.data.objects
  op,            \* the operation called last: create, delete or render
  prev_op,       \* the operation called before it
  baseline,      \* how many cameras, and how many managed cameras,
                 \* bpy.data.objects held when the last operation was called
  target_name,   \* object_name, when op or prev_op is create
  cameras,       \* names of the cameras that create_cameras returned
  removed,       \* len(cameras_to_delete), when op or prev_op is delete
  exc,           \* the exception the last operation raised, or "none"
  render_pc,     \* idle, or loop while render_cameras iterates
  cameras_to_render, \* the cameras render_cameras selected, by name
  render_i,      \* number of iterations of its loop completed
  rendered,      \* the images it has written: file name and active camera
  scene_camera,  \* scene.camera: name of the active camera, <<>> when unset
  progress,      \* last value given to wm.progress_update
  floor_object_name, \* scene.lora_object_settings.floor_object_name
  floor_object,  \* the floor render_cameras looked up: its position in
                 \* bpy.data.objects, 0 for None
  hide_before,   \* hide_render of the floor mesh when the batch started
  output_exists, \* whether the output directory exists
  hdri_files,    \* the .hdr / .exr files of the HDRI folder
  override_world, \* argument  override_world
  scene_world,   \* scene.world
  host_calls,    \* what the batch has had the host create
  returned,      \* what render_cameras returned: <<>> for None, <<n>> for n
  info_num_cameras, \* lora_render_button_settings.info_num_cameras
  started_clean  \* whether the scene held no managed camera at the start

dist_vars == <<dist_call, dist_done, dist_result>>
flt_vars == <<flt_points, flt_threshold, flt_done, flt_out>>
call_vars == <<op, prev_op, baseline, target_name, cameras, removed, exc>>
render_vars == <<render_pc, cameras_to_render, render_i, rendered,
                 scene_camera, progress>>
batch_vars == <<floor_object_name, floor_object, hide_before, output_exists,
                hdri_files, override_world, scene_world, host_calls, returned>>
panel_vars == <<info_num_cameras, started_clean>>
scene_vars == <<objects, call_vars, render_vars, batch_vars, panel_vars>>
vars == <<dist_vars, flt_vars, scene_vars>>

DistIdle == dist_call = [distribution_type |-> "linear", H |-> 0, V |-> 0,
                         half_sphere |-> FALSE]
            /\ dist_done = FALSE /\ dist_result = Return(<<>>)
FltIdle == flt_points = <<>> /\ flt_threshold = 0 /\ flt_done = FALSE
           /\ flt_out = <<>>
CallIdle == op = "none" /\ prev_op = "none"
            /\ baseline = [cameras |-> 0, managed |-> 0]
            /\ target_name = <<>> /\ cameras = <<>> /\ removed = 0
            /\ exc = "none"
RenderIdle == render_pc = "idle" /\ cameras_to_render = <<>> /\ render_i = 0
              /\ rendered = <<>> /\ scene_camera = <<>> /\ progress = 0
BatchIdle == floor_object_name = <<>> /\ floor_object = 0
             /\ hide_before = FALSE /\ output_exists = FALSE
             /\ hdri_files = {} /\ override_world = FALSE
             /\ scene_world = NoWorld /\ host_calls = NoCalls
             /\ returned = <<>>
\* info_num_cameras has the default 0.
PanelIdle == info_num_cameras = 0 /\ started_clean = TRUE
SceneIdle == objects = <<>> /\ CallIdle /\ RenderIdle /\ BatchIdle /\ PanelIdle

\* ------------------------------------------- point generation, in isolation
InitDist ==
  /\ dist_call \in [distribution_type : Strategies, H : 0..MaxCount,
                     V : 0..MaxCount, half_sphere : BOOLEAN]
  /\ dist_done = FALSE
  /\ dist_result = Return(<<>>)
  /\ FltIdle
  /\ SceneIdle

Generate ==
  /\ ~dist_done
  /\ dist_result' = distribute(dist_call.distribution_type, dist_call.H,
                               dist_call.V, dist_call.half_sphere)
  /\ dist_done' = TRUE
  /\ UNCHANGED <<dist_call, flt_vars, scene_vars>>

NextDist == Generate
SpecDist == InitDist /\ [][NextDist]_vars

\* ---------------------------------------------- overlap filter, in isolation
MaxCoord == 2
MaxPoints == 3
MaxThreshold == 2

\* Input points: exact coordinates on a small grid of the plane z = 0.
GridPoints == {<<x, y, 0>> : x \in 0..MaxCoord, y \in 0..1}
SeqsUpTo(S, n) == UNION {[1..k -> S] : k \in 0..n}

InitFilter ==
  /\ flt_points \in SeqsUpTo(GridPoints, MaxPoints)
  /\ flt_threshold \in 0..MaxThreshold
  /\ flt_done = FALSE
  /\ flt_out = <<>>
  /\ DistIdle
  /\ SceneIdle

Filter ==
  /\ ~flt_done
  /\ flt_out' = remove_overlapping_cameras(flt_points, flt_threshold)
  /\ flt_done' = TRUE
  /\ UNCHANGED <<flt_points, flt_threshold, dist_vars, scene_vars>>

NextFilter == Filter
SpecFilter == InitFilter /\ [][NextFilter]_vars

\* ------------------------------------------------- the scene's operations
MaxGrid == 2
MaxCameras == 4

TargetName == <<"T">>
FloorName == <<"F">>
BaseCameraName == <<"C", "a", "m">>
MissingName == <<"Q">>

\* A scene: the target empty, a floor mesh and a camera, and any of a camera
\* named without digits after _ai_, an empty named like a managed camera and
\* a camera whose name goes on after the digits.
BaseObjects == <<[name |-> TargetName, type |-> "EMPTY"],
                 [name |-> FloorName, type |-> "MESH"],
                 [name |-> BaseCameraName, type |-> "CAMERA"]>>
UserObjects == <<[name |-> <<"c", "_", "a", "i", "_", "x">>, type |-> "CAMERA"],
                 [name |-> <<"e", "_", "a", "i", "_", "3">>, type |-> "EMPTY"],
                 [name |-> <<"c", "_", "a", "i", "_", "7", "z">>,
                  type |-> "CAMERA"]>>

\* The objects the user added: those of UserObjects at the positions in C.
Added(C) ==
  LET acc[k \in 0..Len(UserObjects)] ==
        IF k = 0 THEN <<>>
        ELSE LET so_far == acc[k - 1]
             IN IF k \in C THEN Append(so_far, UserObjects[k]) ELSE so_far
  IN acc[Len(UserObjects)]

Scenes == {BaseObjects \o Added(C) : C \in SUBSET (1..Len(UserObjects))}

\* The thresholds of the overlap filter: every pair of points is that far
\* apart (0), no pair is (3, more than a diameter of the unit sphere).
OverlapThresholds == {0, 3}

\* The arguments of create_cameras as the operator takes them from the
\* settings, whose counts are at least 1 (the radii do not bear on what is
\* modelled): every grid, strategy and half_sphere without the overlap
\* filter; the overlap filter and the base camera on the largest grid; a
\* target that does not exist.
DefaultCall ==
  [object_name |-> TargetName, H |-> MaxGrid, V |-> MaxGrid,
   distribution_type |-> "fibonacci", half_sphere |-> FALSE,
   camera_base |-> NoneName, remove_overlapping |-> FALSE,
   overlap_threshold |-> 0]

CreateCalls ==
  {[DefaultCall EXCEPT !.H = h, !.V = v, !.distribution_type = t,
                       !.half_sphere = hs] :
     h \in 1..MaxGrid, v \in 1..MaxGrid, t \in Strategies, hs \in BOOLEAN}
  \cup
  {[DefaultCall EXCEPT !.distribution_type = t, !.camera_base = b,
                       !.remove_overlapping = ro, !.overlap_threshold = th] :
     t \in {"fibonacci", "linear"}, b \in {NoneName, BaseCameraName},
     ro \in BOOLEAN, th \in OverlapThresholds}
  \cup
  {[DefaultCall EXCEPT !.object_name = MissingName]}

is_camera(object) == object.type = "CAMERA"

\* info_num_cameras = len(cameras), after create_cameras returned r; an
\* exception of create_cameras leaves execute before the assignment.
created_count(r, info) == IF r.exc = "none" THEN Len(r.cameras) ELSE info

Init ==
  /\ objects \in Scenes
  /\ CallIdle
  /\ RenderIdle
  /\ BatchIdle
  /\ info_num_cameras = 0
  /\ started_clean = (managed_cameras(objects) = <<>>)
  /\ DistIdle
  /\ FltIdle

\* An operation is called: what the scene holds is noted, and of the earlier
\* results those of the operation before it are kept.
Called(name) ==
  /\ op' = name
  /\ prev_op' = op
  /\ name # "create" =>
       /\ cameras' = IF op = "create" THEN cameras ELSE <<>>
       /\ target_name' = IF op = "create" THEN target_name ELSE <<>>
  /\ name # "delete" => removed' = IF op = "delete" THEN removed ELSE 0
  /\ baseline' = [cameras |-> Len(SelectSeq(objects, is_camera)),
                  managed |-> Len(managed_cameras(objects))]

Create ==
  /\ render_pc = "idle"
  /\ \E a \in CreateCalls :
       \E r \in {create_cameras(objects, a)} :
          /\ Len(managed_cameras(r.objects)) <= MaxCameras
          /\ objects' = r.objects
          /\ cameras' = r.cameras
          /\ exc' = r.exc
          /\ target_name' = a.object_name
          /\ info_num_cameras' = created_count(r, info_num_cameras)
  /\ Called("create")
  /\ UNCHANGED <<started_clean, render_vars, batch_vars, dist_vars, flt_vars>>

\* Removing an object unsets scene.camera when it is that object.
Delete ==
  /\ render_pc = "idle"
  /\ LET r == delete_ai_cameras(objects)
     IN /\ objects' = r.objects
        /\ removed' = r.removed
        /\ scene_camera' = IF scene_camera \in Names(r.objects)
                           THEN scene_camera ELSE <<>>
  /\ exc' = "none"
  /\ info_num_cameras' = 0
  /\ Called("delete")
  /\ UNCHANGED <<render_pc, cameras_to_render, render_i, rendered, progress,
                 started_clean, batch_vars, dist_vars, flt_vars>>

\* render_cameras up to its loop: the cameras are selected.
RenderBegin ==
  /\ render_pc = "idle"
  /\ cameras_to_render' =
       [k \in 1..Len(managed_cameras(objects)) |->
          managed_cameras(objects)[k].name]
  /\ render_i' = 0
  /\ rendered' = <<>>
  /\ progress' = 0
  /\ render_pc' = "loop"
  /\ exc' = "none"
  /\ Called("render")
  /\ UNCHANGED <<objects, scene_camera, batch_vars, dist_vars, flt_vars,
                 panel_vars>>

\* One iteration of its loop: camera i is made active and rendered.
RenderStep ==
  /\ render_pc = "loop"
  /\ render_i < Len(cameras_to_render)
  /\ scene_camera' = cameras_to_render[render_i + 1]
  /\ rendered' = Append(rendered, [file |-> render_filename(render_i),
                                   camera |-> scene_camera'])
  /\ progress' = render_i + 1
  /\ render_i' = render_i + 1
  /\ UNCHANGED <<objects, call_vars, render_pc, cameras_to_render,
                 batch_vars, dist_vars, flt_vars, panel_vars>>

\* The loop is over: progress_end, and the call returns.
RenderEnd ==
  /\ render_pc = "loop"
  /\ render_i = Len(cameras_to_render)
  /\ render_pc' = "idle"
  /\ cameras_to_render' = <<>>
  /\ render_i' = 0
  /\ rendered' = <<>>
  /\ progress' = 0
  /\ UNCHANGED <<objects, call_vars, scene_camera, batch_vars, dist_vars,
                 flt_vars, panel_vars>>

Next == Create \/ Delete \/ RenderBegin \/ RenderStep \/ RenderEnd
Spec == Init /\ [][Next]_vars

\* ------------------------------------------- one render batch, step by step
MaxBatch == 2

\* The heights of the cameras: below, level with and above the floor.
Heights == {-1, 0, 1}

\* A scene for a batch: the target, the floor mesh (rendered or not), a camera
\* that is not managed, and the managed cameras a create_cameras call left,
\* each at one of the heights.
BatchObjects(floor_hidden) ==
  <<[name |-> TargetName, type |-> "EMPTY", z |-> 0, hide_render |-> FALSE],
    [name |-> FloorName, type |-> "MESH", z |-> 0,
     hide_render |-> floor_hidden],
    [name |-> BaseCameraName, type |-> "CAMERA", z |-> 1,
     hide_render |-> FALSE]>>

BatchCameras(heights) ==
  [k \in 1..Len(heights) |->
     [name |-> ai_name(TargetName, k - 1), type |-> "CAMERA",
      z |-> heights[k], hide_render |-> FALSE]]

BatchScenes ==
  {BatchObjects(floor_hidden) \o BatchCameras(heights) :
     floor_hidden \in BOOLEAN, heights \in SeqsUpTo(Heights, MaxBatch)}

\* scene.world before the batch: none; a world without nodes; a world whose
\* environment texture node is there and linked; a world with nodes whose
\* background shader was removed.
Worlds ==
  {NoWorld,
   new_world,
   [exists |-> TRUE, use_nodes |-> TRUE,
    nodes |-> {"Background", "World Output", "Environment Texture"},
    links |-> {<<"Background", "World Output">>,
               <<"Environment Texture", "Background">>},
    image |-> "old.hdr"],
   [exists |-> TRUE, use_nodes |-> TRUE, nodes |-> {"World Output"},
    links |-> {}, image |-> "none"]}

HdriFolders == {{}, {"a.hdr", "b.exr"}}

FloorNames == {<<>>, NoneFloor, FloorName, MissingName}

\* hide_render of the mesh named FloorName
floor_mesh_hidden(objs) == objs[objects_get(objs, FloorName)].hide_render

InitRender ==
  /\ objects \in BatchScenes
  /\ floor_object_name \in FloorNames
  /\ hide_before = floor_mesh_hidden(objects)
  /\ output_exists \in BOOLEAN
  /\ hdri_files \in HdriFolders
  /\ override_world \in BOOLEAN
  /\ scene_world \in Worlds
  /\ floor_object = 0
  /\ host_calls = NoCalls
  /\ returned = <<>>
  /\ render_pc = "start"
  /\ cameras_to_render = <<>> /\ render_i = 0 /\ rendered = <<>>
  /\ scene_camera = <<>> /\ progress = 0
  /\ CallIdle
  /\ PanelIdle
  /\ DistIdle
  /\ FltIdle

\* render_cameras up to its loop: the output directory is made, the cameras
\* are selected, the floor is looked up, progress_begin.
Setup ==
  /\ render_pc = "start"
  /\ output_exists' = TRUE
  /\ cameras_to_render' =
       [k \in 1..Len(managed_cameras(objects)) |->
          managed_cameras(objects)[k].name]
  /\ floor_object' = floor_lookup(objects, floor_object_name)
  /\ progress' = 0
  /\ op' = "render"
  /\ render_pc' = "head"
  /\ UNCHANGED <<objects, prev_op, baseline, target_name, cameras, removed,
                 exc, render_i, rendered, scene_camera, floor_object_name,
                 hide_before, hdri_files, override_world, scene_world,
                 host_calls, returned, dist_vars, flt_vars, panel_vars>>

\* camera i of the loop
current_camera == objects[objects_get(objects, cameras_to_render[render_i + 1])]

\* The floor is hidden for a camera below it.
HideFloor ==
  objects' = IF floor_object # 0
                /\ camera_below_floor(current_camera, objects[floor_object])
             THEN [objects EXCEPT ![floor_object].hide_render = TRUE]
             ELSE objects

\* One iteration up to the render: the camera is made active, the
\* environment is swapped, the floor is hidden, the file path is set.  A
\* KeyError of the environment branch ends the call.
Prepare ==
  /\ render_pc = "head"
  /\ render_i < Len(cameras_to_render)
  /\ scene_camera' = cameras_to_render[render_i + 1]
  /\ IF env_swap_needed(hdri_files, override_world, scene_world)
     THEN \E random_hdri \in hdri_files :
            \E r \in {set_environment(scene_world, random_hdri, host_calls)} :
               /\ scene_world' = r.world
               /\ host_calls' = r.calls
               /\ exc' = r.exc
               /\ IF r.exc = "none"
                  THEN HideFloor /\ render_pc' = "render"
                  ELSE objects' = objects /\ render_pc' = "raised"
     ELSE /\ HideFloor
          /\ render_pc' = "render"
          /\ UNCHANGED <<scene_world, host_calls, exc>>
  /\ UNCHANGED <<op, prev_op, baseline, target_name, cameras, removed,
                 cameras_to_render, render_i, rendered, progress,
                 floor_object_name, floor_object, hide_before, output_exists,
                 hdri_files, override_world, returned, dist_vars, flt_vars,
                 panel_vars>>

\* bpy.ops.render.render(write_still=True) writes the image.
Render ==
  /\ render_pc = "render"
  /\ rendered' = Append(rendered,
       [file |-> render_filename(render_i), camera |-> scene_camera,
        floor_hidden |-> floor_object # 0
                         /\ objects[floor_object].hide_render])
  /\ render_pc' = "restore"
  /\ UNCHANGED <<objects, call_vars, cameras_to_render, render_i,
                 scene_camera, progress, batch_vars, dist_vars, flt_vars,
                 panel_vars>>

\* bpy.ops.render.render raises: the exception leaves render_cameras.
RenderRaises ==
  /\ render_pc = "render"
  /\ exc' = "RuntimeError"
  /\ render_pc' = "raised"
  /\ UNCHANGED <<objects, op, prev_op, baseline, target_name, cameras,
                 removed, cameras_to_render, render_i, rendered, scene_camera,
                 progress, batch_vars, dist_vars, flt_vars, panel_vars>>

\* The rest of the iteration: the floor is made visible, progress_update.
Restore ==
  /\ render_pc = "restore"
  /\ objects' = IF floor_object # 0
                THEN [objects EXCEPT ![floor_object].hide_render = FALSE]
                ELSE objects
  /\ progress' = progress_update(render_i)
  /\ render_i' = render_i + 1
  /\ render_pc' = "head"
  /\ UNCHANGED <<call_vars, cameras_to_render, rendered, scene_camera,
                 batch_vars, dist_vars, flt_vars, panel_vars>>

\* After the loop: progress_end, the message, and the call returns None.
Finish ==
  /\ render_pc = "head"
  /\ render_i = Len(cameras_to_render)
  /\ returned' = <<>>
  /\ render_pc' = "returned"
  /\ UNCHANGED <<objects, call_vars, cameras_to_render, render_i, rendered,
                 scene_camera, progress, floor_object_name, floor_object,
                 hide_before, output_exists, hdri_files, override_world,
                 scene_world, host_calls, dist_vars, flt_vars, panel_vars>>

NextRender ==
  Setup \/ Prepare \/ Render \/ RenderRaises \/ Restore \/ Finish
SpecRender == InitRender /\ [][NextRender]_vars

\* ============================================================ point counts
DistN == dist_call.H * dist_call.V

\* C1: for H >= 1, V >= 1 and both values of half_sphere, linear, uniform and
\* equator_dense return exactly H*V points without raising.
C1_GridReturnsHV ==
  (/\ dist_done
   /\ dist_call.distribution_type \in {"linear", "uniform", "equator_dense"}
   /\ dist_call.H >= 1 /\ dist_call.V >= 1)
  => (dist_result.exc = "none" /\ Len(dist_result.points) = DistN)

\* C2: with horizontal_count = 0 or vertical_count = 0 every strategy returns
\* the empty sequence and never raises.
C2_ZeroCountEmpty ==
  (dist_done /\ (dist_call.H = 0 \/ dist_call.V = 0))
  => (dist_result.exc = "none" /\ dist_result.points = <<>>)

\* theta <= pi/2, and theta >= pi/2, for an angle  pi * num / den
InTopHemisphere(p) == p.theta.fn = "none" /\ 2 * p.theta.num <= p.theta.den
InBottomHemisphere(p) == p.theta.fn = "none" /\ 2 * p.theta.num >= p.theta.den

\* C3: for H >= 1, V >= 1 and N = H*V the weighted strategy returns, without
\* raising, exactly N points: floor(N * 0.8) points of the top hemisphere
\* followed by the remaining points of the bottom hemisphere.
C3_WeightedSplit ==
  (/\ dist_done /\ dist_call.distribution_type = "weighted"
   /\ dist_call.H >= 1 /\ dist_call.V >= 1)
  => LET top == (DistN * BiasNum) \div BiasDen
         pts == dist_result.points
     IN /\ dist_result.exc = "none"
        /\ Len(pts) = DistN
        /\ \A k \in 1..Len(pts) :
             IF k <= top THEN InTopHemisphere(pts[k])
                         ELSE InBottomHemisphere(pts[k])

\* C4: fibonacci_sphere with samples = 1 returns at most one point and does
\* not raise a division error, for either value of half_sphere.
C4_FibonacciOneSample ==
  (/\ dist_done /\ dist_call.distribution_type = "fibonacci" /\ DistN = 1)
  => (dist_result.exc = "none" /\ Len(dist_result.points) <= 1)

\* ========================================================== overlap filter
Dist2(a, b) == Length2(Sub(a, b))

\* s restricted to the positions in S, in order
Pick(s, S) ==
  LET acc[k \in 0..Len(s)] ==
        IF k = 0 THEN <<>>
        ELSE LET so_far == acc[k - 1]
             IN IF k \in S THEN Append(so_far, s[k]) ELSE so_far
  IN acc[Len(s)]
Thr2 == flt_threshold * flt_threshold
InputPositions == 1..Len(flt_points)

\* C5: the filter returns a subsequence of its input (same points, same
\* relative order, none added) in which every two returned points are at
\* distance >= threshold.
C5_SubsequenceFarApart ==
  flt_done =>
    /\ \E S \in SUBSET InputPositions : flt_out = Pick(flt_points, S)
    /\ \A a, b \in 1..Len(flt_out) :
         a # b => Dist2(flt_out[a], flt_out[b]) >= Thr2

C5_Witness ==
  /\ flt_done /\ flt_threshold > 0
  /\ Len(flt_out) >= 2 /\ Len(flt_out) < Len(flt_points)

\* C6: the filter is greedy in input order: a point is accepted if and only
\* if it is at distance >= threshold from every point accepted before it (so
\* the first point is accepted and a dropped point is closer than threshold
\* to an earlier accepted one); with threshold 0 the output is the input.
C6_Greedy ==
  flt_done =>
    /\ \E S \in SUBSET InputPositions :
         /\ flt_out = Pick(flt_points, S)
         /\ \A k \in InputPositions :
              k \in S <=> \A j \in S : j < k =>
                            Dist2(flt_points[k], flt_points[j]) >= Thr2
    /\ flt_threshold = 0 => flt_out = flt_points

C6_Witness ==
  /\ flt_done /\ flt_threshold > 0 /\ Len(flt_points) = 3
  /\ flt_out = <<flt_points[1], flt_points[3]>>
  /\ Dist2(flt_points[2], flt_points[1]) < Thr2
  /\ Dist2(flt_points[3], flt_points[2]) < Thr2

\* ================================================== naming and the life cycle
\* C7: the cameras one create_cameras call creates are named <target>_ai_<idx>
\* with idx = 0 .. N-1 in the order of the points, whatever the scene held
\* before the call.
C7_NamesContiguous ==
  (op = "create" /\ exc = "none") =>
    \A k \in 1..Len(cameras) : cameras[k] = ai_name(target_name, k - 1)

CameraCount == Len(SelectSeq(objects, is_camera))

\* C8 as claimed: from any scene state, create_cameras creating N cameras and
\* then delete_ai_cameras removes exactly N objects and leaves the number of
\* cameras at its value before the create call.
C8_RoundTrip ==
  [][(op = "create" /\ op' = "delete")
       => (removed' = Len(cameras) /\ CameraCount' = baseline.cameras)]_vars

\* C8, amended: from any scene state that holds no managed camera,
\* create_cameras creating N cameras and then delete_ai_cameras removes
\* exactly N objects and leaves the number of cameras at its value before the
\* create call.
C8_RoundTripFromClean ==
  [][(op = "create" /\ baseline.managed = 0 /\ op' = "delete")
       => (removed' = Len(cameras) /\ CameraCount' = baseline.cameras)]_vars

C8_Witness ==
  /\ op = "delete" /\ prev_op = "create"
  /\ removed >= 2 /\ removed = Len(cameras) /\ baseline.managed = Len(cameras)
  /\ managed_cameras(objects) = <<>>

\* C9: delete_ai_cameras leaves no managed camera, and called again right
\* after, it removes 0 objects, changes nothing in the scene and does not
\* raise.
C9_DeleteIdempotent ==
  /\ [](op = "delete" => (managed_cameras(objects) = <<>> /\ exc = "none"))
  /\ [][(op = "delete" /\ op' = "delete")
          => (removed' = 0 /\ objects' = objects /\ exc' = "none")]_vars

C9_Witness ==
  /\ op = "delete" /\ prev_op = "delete"
  /\ removed = 0 /\ baseline.managed = 0
  /\ \E k \in 1..Len(objects) : objects[k].type = "CAMERA"

\* The name ends with _ai_<digits>.
ends_with_ai_digits(name) ==
  \E p \in 1..(Len(name) - 4) :
    /\ name[p] = "_" /\ name[p + 1] = "a" /\ name[p + 2] = "i"
    /\ name[p + 3] = "_"
    /\ \A q \in (p + 4)..Len(name) : name[q] \in Digits

is_suffix_managed(object) ==
  object.type = "CAMERA" /\ ends_with_ai_digits(object.name)
not_suffix_managed(object) == ~is_suffix_managed(object)

\* C10: delete_ai_cameras and render_cameras select exactly the cameras whose
\* name ends with _ai_<digits>: every other object (a camera whose name has
\* no digits after _ai_ or goes on after the digits, a non-camera) is never
\* rendered and is left as it is by delete.
C10_SuffixDiscovery ==
  /\ [](render_pc = "loop" =>
          cameras_to_render =
            [k \in 1..Len(SelectSeq(objects, is_suffix_managed)) |->
               SelectSeq(objects, is_suffix_managed)[k].name])
  /\ [][op' = "delete" => objects' = SelectSeq(objects, not_suffix_managed)]_vars

\* ============================================================ render batch
\* How many cameras of the scene bear a name with _ai_<digits>.
DiscoveredCount ==
  Cardinality({k \in 1..Len(objects) :
                 /\ objects[k].type = "CAMERA"
                 /\ re_search_ai_digits(objects[k].name)})

CameraAt(k) == objects[objects_get(objects, cameras_to_render[k])]
Floor == objects[floor_object]
BelowFloor(k) == floor_object # 0 /\ CameraAt(k).z < Floor.z

\* C12: with a floor configured, for every camera strictly below the floor
\* the floor is hidden from rendering when that camera's render is invoked
\* (and in the image written), and is visible again when the loop comes to
\* the next camera.
C12_FloorHiddenBelow ==
  /\ (render_pc = "render" /\ BelowFloor(render_i + 1)) => Floor.hide_render
  /\ \A k \in 1..Len(rendered) : BelowFloor(k) => rendered[k].floor_hidden
  /\ (render_pc \in {"head", "returned"} /\ render_i >= 1
       /\ BelowFloor(render_i)) => ~Floor.hide_render

C12_Witness ==
  /\ render_pc = "head" /\ render_i >= 1 /\ render_i < Len(cameras_to_render)
  /\ BelowFloor(render_i) /\ rendered[render_i].floor_hidden
  /\ ~Floor.hide_render /\ ~hide_before

\* C13: when the render step raises for a camera for which the floor was
\* hidden, the floor is visible again when the error leaves render_cameras:
\* a floor that was visible before the batch is not hidden after a failed
\* batch.
C13_RestoreOnError ==
  (render_pc = "raised" /\ exc = "RuntimeError" /\ floor_object # 0
   /\ ~hide_before) => ~Floor.hide_render

\* C14: after a batch that ran to completion the floor's hide_render is what
\* it was before the batch, whatever it was and wherever the cameras are.
C14_FloorAsBefore ==
  render_pc = "returned" => floor_mesh_hidden(objects) = hide_before

\* C15: a configured name that no object bears makes the operation fail at
\* once: render_cameras with such a floor name raises and renders nothing.
C15_MissingNameFails ==
  (/\ render_pc # "start"
   /\ floor_object_name \notin {<<>>, NoneFloor}
   /\ floor_object_name \notin Names(objects))
  => (rendered = <<>> /\ render_pc # "returned")

\* The digit a character stands for.
DigitValue(c) == CHOOSE d \in 0..9 : DigitChar[d + 1] = c

\* render_<i in 3 digits>.png, for i < 1000
IsRenderFile(f, i) ==
  /\ Len(f) = 14
  /\ SubSeq(f, 1, 7) = <<"r", "e", "n", "d", "e", "r", "_">>
  /\ SubSeq(f, 11, 14) = <<".", "p", "n", "g">>
  /\ \A q \in 8..10 : f[q] \in Digits
  /\ 100 * DigitValue(f[8]) + 10 * DigitValue(f[9]) + DigitValue(f[10]) = i

\* C16: the cameras are made active and rendered once each in discovery
\* order, camera i (from 0) to render_<i in 3 digits>.png; two cameras of a
\* batch never share a file, and a batch that returns has rendered them all.
C16_OncePerCameraInOrder ==
  /\ \A k \in 1..Len(rendered) :
       /\ rendered[k].camera = cameras_to_render[k]
       /\ IsRenderFile(rendered[k].file, k - 1)
  /\ \A a, b \in 1..Len(rendered) :
       a # b => (/\ rendered[a].file # rendered[b].file
                 /\ rendered[a].camera # rendered[b].camera)
  /\ render_pc \in {"render", "restore"} =>
       (/\ scene_camera = cameras_to_render[render_i + 1]
        /\ Len(rendered) = render_i + (IF render_pc = "restore" THEN 1 ELSE 0))
  /\ render_pc = "returned" => Len(rendered) = Len(cameras_to_render)

C16_Witness ==
  /\ render_pc = "returned" /\ Len(rendered) = 2
  /\ rendered[2].file = <<"r", "e", "n", "d", "e", "r", "_", "0", "0", "1",
                          ".", "p", "n", "g">>
  /\ rendered[2].camera = cameras_to_render[2]

\* C17: when the render step fails at camera k the error leaves
\* render_cameras and nothing is tried again: the images of cameras 0..k-1
\* are written and stay, no later camera is rendered, and the progress
\* reported is never more than k.
C17_FailureAborts ==
  /\ [](progress <= render_i)
  /\ []((render_pc = "raised" /\ exc = "RuntimeError") =>
          /\ Len(rendered) = render_i
          /\ progress <= render_i
          /\ \A k \in 1..render_i : rendered[k].camera = cameras_to_render[k])
  /\ [][render_pc = "raised" =>
          (render_pc' = "raised" /\ rendered' = rendered
           /\ progress' = progress)]_vars

C17_Witness ==
  /\ render_pc = "raised" /\ exc = "RuntimeError"
  /\ render_i = 1 /\ Len(rendered) = 1 /\ progress = 1
  /\ Len(cameras_to_render) = 2

\* The environment is to be swapped at this iteration.
SwapExpected == hdri_files # {} /\ (override_world \/ ~scene_world.exists)

\* An iteration goes from the head of the loop to its render, or raises.
IterationBegins == render_pc = "head" /\ render_pc' \in {"render", "raised"}

\* C18: the environment is swapped for a camera iff there are maps and
\* (override_world or no world at that iteration); a world is created only
\* when there is none, the environment texture node and its link only when
\* absent, at most one of each over the batch; without maps, or with
\* override_world false and a world configured, the world is not modified.
C18_EnvironmentSwap ==
  /\ [](/\ host_calls.worlds_new <= 1
        /\ host_calls.nodes_new <= 1
        /\ host_calls.links_new <= 1)
  /\ [][IterationBegins =>
          /\ (host_calls' # host_calls) <=> SwapExpected
          /\ (host_calls'.worlds_new > host_calls.worlds_new)
               <=> (SwapExpected /\ ~scene_world.exists)
          /\ (host_calls'.nodes_new > host_calls.nodes_new)
               => "Environment Texture" \notin scene_world.nodes
          /\ (host_calls'.links_new > host_calls.links_new)
               => <<"Environment Texture", "Background">>
                    \notin scene_world.links]_vars
  /\ [][(hdri_files = {} \/ (~override_world /\ scene_world.exists))
          => scene_world' = scene_world]_vars

C18_Witness ==
  /\ host_calls.images_load = 2 /\ host_calls.worlds_new = 1
  /\ host_calls.nodes_new = 1 /\ host_calls.links_new = 1
  /\ override_world

\* ===================================================== angles of the points
\* C19: linear_distribution places no ring at a pole: for V >= 1 the angle of
\* every ring v is more than 0, at most pi/2 with half_sphere, and with the
\* full sphere less than pi, being pi * (v + 1) / (V + 1).
C19_LinearAvoidsPoles ==
  (/\ dist_done /\ dist_call.distribution_type = "linear"
   /\ dist_call.V >= 1 /\ dist_result.exc = "none")
  => \A k \in 1..Len(dist_result.points) :
       LET theta == dist_result.points[k].theta
           v == (k - 1) \div dist_call.H
       IN /\ theta.fn = "none" /\ theta.den > 0
          /\ theta.num > 0
          /\ dist_call.half_sphere => 2 * theta.num <= theta.den
          /\ ~dist_call.half_sphere =>
               /\ theta.num < theta.den
               /\ theta.num * (dist_call.V + 1) = (v + 1) * theta.den

\* z of fibonacci point k (from 1) is  1 - 2 * (k - 1) / (N - 1) , and its
\* turn is that of index k - 1.
FibonacciPointOfIndex(k) ==
  LET p == dist_result.points[k]
  IN /\ p.theta.fn = "acos" /\ p.theta.post = "none" /\ p.theta.den > 0
     /\ p.theta.num * (DistN - 1) = p.theta.den * (DistN - 1 - 2 * (k - 1))
     /\ p.phi = Golden(k - 1)

\* C20: for N = H*V >= 2 fibonacci_sphere returns N points with the full
\* sphere, z going linearly from 1 at index 0 to -1 at index N-1; with
\* half_sphere it returns in index order exactly the points with z >= 0,
\* floor((N-1)/2) + 1 of them, fewer than N.
C20_FibonacciCount ==
  (dist_done /\ dist_call.distribution_type = "fibonacci" /\ DistN >= 2)
  => /\ dist_result.exc = "none"
     /\ \A k \in 1..Len(dist_result.points) : FibonacciPointOfIndex(k)
     /\ ~dist_call.half_sphere => Len(dist_result.points) = DistN
     /\ dist_call.half_sphere =>
          /\ Len(dist_result.points) = ((DistN - 1) \div 2) + 1
          /\ Len(dist_result.points) < DistN
          /\ \A k \in 1..Len(dist_result.points) :
               dist_result.points[k].theta.num >= 0
          /\ DistN - 1 - 2 * Len(dist_result.points) < 0

C20_Witness ==
  /\ dist_done /\ dist_call.distribution_type = "fibonacci"
  /\ dist_call.half_sphere /\ DistN = 3
  /\ Len(dist_result.points) = 2
  /\ dist_result.points[2].theta.num = 0

\* ============================================================= the counter
\* C21: after any sequence of the create, delete and render operators from a
\* scene without managed cameras, info_num_cameras is the number of managed
\* cameras in the scene.
C21_CounterMatchesScene ==
  (started_clean /\ render_pc = "idle")
  => info_num_cameras = Len(managed_cameras(objects))

====
